---------------------------- MODULE Spec2Model ----------------------------
(***************************************************************************)
(* Model of expressionParser.py: the tokenizer (extractNodes), the tree    *)
(* builder (createExpressionTree) and the evaluator (Node.exec and its     *)
(* overrides).                                                             *)
(*                                                                         *)
(* Text is a sequence of one-character strings.  Nodes live in a heap (a   *)
(* sequence of records); a node is named by its index, and 0 stands for    *)
(* Python's None in a child slot.                                          *)
(***************************************************************************)
EXTENDS Integers, Sequences, FiniteSets, TLC

VARIABLES expression, heap, nodes, base, stack, pc, root, results

vars == <<expression, heap, nodes, base, stack, pc, root, results>>

-----------------------------------------------------------------------------
(* Generic helpers *)

Min(S) == CHOOSE x \in S : \A y \in S : x <= y

Max(S) == CHOOSE x \in S : \A y \in S : x >= y

Abs(i) == IF i < 0 THEN -i ELSE i

RECURSIVE GCD(_, _)
GCD(a, b) == IF b = 0 THEN a ELSE GCD(b, a % b)

RECURSIVE IPow(_, _)
IPow(b, e) == IF e = 0 THEN 1 ELSE b * IPow(b, e - 1)

RECURSIVE Concat(_)
Concat(ss) == IF ss = <<>> THEN <<>> ELSE Head(ss) \o Concat(Tail(ss))

-----------------------------------------------------------------------------
(* Character classes of the regular expressions *)

Lower == {"a", "b", "c", "d", "e", "f", "g", "h", "i", "j", "k", "l", "m",
      "n", "o", "p", "q", "r", "s", "t", "u", "v", "w", "x", "y", "z"}

Upper == {"A", "B", "C", "D", "E", "F", "G", "H", "I", "J", "K", "L", "M",
      "N", "O", "P", "Q", "R", "S", "T", "U", "V", "W", "X", "Y", "Z"}

\* re.IGNORECASE makes [a-z] match both cases
Letters == Lower \cup Upper

Digits == {"0", "1", "2", "3", "4", "5", "6", "7", "8", "9"}

\* \s
Whitespace == {" ", "\t", "\n", "\r"}

IdentChars == Letters \cup Digits \cup {"_"}

\* the complement of the class of tokenRegex's last alternative
NonOperatorChars == Letters \cup Digits \cup Whitespace \cup {"[", "]", "(", ")", "\""}

\* index of the last character of the longest run of characters of C
\* that starts at p (p - 1 when s[p] is not in C)
RunEnd(s, p, C) ==
    LET bad == {i \in p..Len(s) : s[i] \notin C}
    IN  IF bad = {} THEN Len(s) ELSE Min(bad) - 1

\* the same for the characters outside C
RunEndNot(s, p, C) ==
    LET bad == {i \in p..Len(s) : s[i] \in C}
    IN  IF bad = {} THEN Len(s) ELSE Min(bad) - 1

IsPrefixAt(s, p, w) ==
    /\ p + Len(w) - 1 <= Len(s)
    /\ \A i \in 1..Len(w) : s[p + i - 1] = w[i]

-----------------------------------------------------------------------------
(* Symbol registries *)

\* operators: symbol -> weight
operatorWeightMap ==
    [sym \in {<<"+">>, <<"-">>, <<"*">>, <<"/">>, <<"%">>, <<"/", "/">>,
              <<"!">>, <<"^">>} |->
        CASE sym \in {<<"+">>, <<"-">>} -> 0
          [] sym \in {<<"*">>, <<"/">>, <<"%">>, <<"/", "/">>} -> 1
          [] sym = <<"!">> -> 3
          [] sym = <<"^">> -> 2]

operatorMap == DOMAIN operatorWeightMap

\* comparators, in the order of the alternation of tokenRegex
comparatorAlternatives ==
    << <<"=", "=">>, <<"!", "=">>, <<"<", "=">>, <<"<">>, <<">", "=">>,
       <<">">>, <<"|", "|">>, <<"|">>, <<"&", "&">>, <<"&">> >>

comparatorMap == {comparatorAlternatives[i] : i \in DOMAIN comparatorAlternatives}

functionMap ==
    { <<"t","o","d","a","y">>, <<"a","s","D","a","t","e">>,
      <<"s","e","c","o","n","d","s">>, <<"m","i","n","u","t","e","s">>,
      <<"h","o","u","r","s">>, <<"d","a","y","s">>, <<"w","e","e","k","s">>,
      <<"m","o","n","t","h","s">>, <<"y","e","a","r","s">>,
      <<"s","u","m">>, <<"a","v","g">>, <<"l","o","g","1","0">>,
      <<"l","n">>, <<"l","o","g">>, <<"s","q","r","t">>,
      <<"n","c","h","a","r">>, <<"i","s","N","u","l","l">>, <<"i","n">> }

-----------------------------------------------------------------------------
(* Nodes *)

\* Python's None as a node value; no text equals it
None == <<"None">>

\* class Node and its subclasses: one record shape for all of them
NewNode(t, v) ==
    [type |-> t, value |-> v, node_a |-> 0, node_b |-> 0,
     arguments |-> <<>>,
     weight |-> IF t = "OPERATOR" /\ v \in operatorMap
                THEN operatorWeightMap[v] ELSE 0]

\* Node(): no type, no value
EmptyNode == NewNode("None", None)

\* StringNode.__init__: re.sub('^\"|\"$', '', value)
StringNodeValue(v) ==
    LET a == IF v # <<>> /\ v[1] = "\"" THEN Tail(v) ELSE v
    IN  IF a # <<>> /\ a[Len(a)] = "\"" THEN SubSeq(a, 1, Len(a) - 1) ELSE a

\* the constructors that raise: OperatorNode, FunctionNode (ComparatorNode
\* also validates, against comparatorMap)
ConstructorRaises(t, v) ==
    \/ t = "OPERATOR" /\ v \notin operatorMap
    \/ t = "COMPARATOR" /\ v \notin comparatorMap
    \/ t = "FUNCTION" /\ v \notin functionMap

createToken(t, v) == NewNode(t, IF t = "STRING" THEN StringNodeValue(v) ELSE v)

-----------------------------------------------------------------------------
(* Tokenizer: tokenRegex, one operator per alternative.  Each returns the  *)
(* index of the last matched character, or 0 when the alternative does not *)
(* match at p.                                                             *)

\* ((?<=\").+(?=\")) : greedy, so up to the last quote of the line
MatchString(s, p) ==
    LET lineEnd == RunEndNot(s, p, {"\n"})
        qs == {q \in (p + 1)..Len(s) : s[q] = "\"" /\ q - 1 <= lineEnd}
    IN  IF p > 1 /\ s[p - 1] = "\"" /\ qs # {} THEN Max(qs) - 1 ELSE 0

\* ((?<=\[)[a-z_]+(?=\]))
MatchVariable(s, p) ==
    LET e == RunEnd(s, p, Letters \cup {"_"})
    IN  IF p > 1 /\ s[p - 1] = "[" /\ e >= p /\ e < Len(s) /\ s[e + 1] = "]"
        THEN e ELSE 0

\* nesting depth the group alternative spells out
GroupNesting == 3

\* (\((?:[^)(]+|\((?:[^)(]+|\([^)(]*\))*\))*\)) : i scans the text after an
\* opening parenthesis, depth counts the parentheses open at i
RECURSIVE ScanGroup(_, _, _)
ScanGroup(s, i, depth) ==
    IF i > Len(s) THEN 0
    ELSE IF s[i] = "("
         THEN IF depth = GroupNesting THEN 0 ELSE ScanGroup(s, i + 1, depth + 1)
    ELSE IF s[i] = ")"
         THEN IF depth = 1 THEN i ELSE ScanGroup(s, i + 1, depth - 1)
    ELSE ScanGroup(s, i + 1, depth)

MatchGroup(s, p) == IF s[p] = "(" THEN ScanGroup(s, p + 1, 1) ELSE 0

\* (==|!=|<=|<|>=|>|\|\||\||&&|&) : the first alternative that matches
MatchComparator(s, p) ==
    LET hits == {i \in DOMAIN comparatorAlternatives :
                    IsPrefixAt(s, p, comparatorAlternatives[i])}
    IN  IF hits = {} THEN 0
        ELSE p + Len(comparatorAlternatives[Min(hits)]) - 1

\* ([a-z][a-z_0-9]+(?=\()
MatchFunction(s, p) ==
    LET e == RunEnd(s, p + 1, IdentChars)
    IN  IF s[p] \in Letters /\ e >= p + 1 /\ e < Len(s) /\ s[e + 1] = "("
        THEN e ELSE 0

\* ([a-z][a-z_0-9]+)
MatchConstant(s, p) ==
    LET e == RunEnd(s, p + 1, IdentChars)
    IN  IF s[p] \in Letters /\ e >= p + 1 THEN e ELSE 0

\* ([0-9.]+)
MatchNumber(s, p) ==
    LET e == RunEnd(s, p, Digits \cup {"."})
    IN  IF e >= p THEN e ELSE 0

\* ([^a-z0-9\[\]\(\)\"\s]+)
MatchOperator(s, p) ==
    LET e == RunEndNot(s, p, NonOperatorChars)
    IN  IF e >= p THEN e ELSE 0

\* group number -> node type
nodeTypes ==
    <<"STRING", "VARIABLE", "TOKEN_GROUP", "COMPARATOR", "FUNCTION",
      "CONSTANT", "NUMBER", "OPERATOR">>

\* the first alternative that matched, given where each one ends
FirstAlternative(ends) ==
    IF \A g \in 1..8 : ends[g] = 0 THEN [g |-> 0, end |-> 0]
    ELSE [g |-> Min({g \in 1..8 : ends[g] # 0}),
          end |-> ends[Min({g \in 1..8 : ends[g] # 0})]]

\* the match of tokenRegex at p; g = 0 when no alternative matches
tokenRegex(s, p) ==
    FirstAlternative(<<MatchString(s, p), MatchVariable(s, p), MatchGroup(s, p),
                       MatchComparator(s, p), MatchFunction(s, p),
                       MatchConstant(s, p), MatchNumber(s, p), MatchOperator(s, p)>>)

\* v without its trailing run of ")"
DropClosers(v) ==
    IF \A i \in 1..Len(v) : v[i] = ")" THEN <<>>
    ELSE SubSeq(v, 1, Max({i \in 1..Len(v) : v[i] # ")"}))

\* re.sub('^\(+|\)+$', '', value): every leading "(" and every trailing ")"
StripParens(v) == DropClosers(SubSeq(v, RunEnd(v, 1, {"("}) + 1, Len(v)))

\* the text a match of the group alternative is stored with
GroupValue(v) == StripParens(v)

\* extractNodes: scans s from p; h is the heap, acc the node list so far.
\* Returns the heap with the new nodes, the list of their ids, and whether
\* a node constructor raised.
RECURSIVE extractNodesFrom(_, _, _, _)

\* the match that ends at e gives a node of type t and text value
AddToken(h, s, acc, e, t, value) ==
    IF t = "TOKEN_GROUP" /\ value = <<>> THEN extractNodesFrom(h, s, e + 1, acc)
    ELSE IF ConstructorRaises(t, value)
    THEN [heap |-> h, nodes |-> acc, raised |-> TRUE]
    ELSE extractNodesFrom(Append(h, createToken(t, value)), s, e + 1,
                          Append(acc, Len(h) + 1))

TokenValue(t, matched) == IF t = "TOKEN_GROUP" THEN GroupValue(matched) ELSE matched

\* m is the match of tokenRegex at p
OnMatch(h, s, p, acc, m) ==
    IF m.g = 0 THEN extractNodesFrom(h, s, p + 1, acc)
    ELSE AddToken(h, s, acc, m.end, nodeTypes[m.g],
                  TokenValue(nodeTypes[m.g], SubSeq(s, p, m.end)))

extractNodesFrom(h, s, p, acc) ==
    IF p > Len(s) THEN [heap |-> h, nodes |-> acc, raised |-> FALSE]
    ELSE OnMatch(h, s, p, acc, tokenRegex(s, p))

extractNodes(h, s) == extractNodesFrom(h, s, 1, <<>>)

-----------------------------------------------------------------------------
(* TokenGroupNode.split: re.split(r",\s*(?![^()]*\))", value)              *)

\* [^()]*\) matches at q: the next parenthesis at or after q closes
ClosesNext(s, q) ==
    LET ps == {j \in q..Len(s) : s[j] \in {"(", ")"}}
    IN  ps # {} /\ s[Min(ps)] = ")"

\* the lengths of whitespace after the comma s[i] at which the lookahead holds
SeparatorTails(s, i) ==
    {k \in 0..(RunEnd(s, i + 1, Whitespace) - i) : ~ClosesNext(s, i + 1 + k)}

\* length of the separator matched at the comma s[i] (0: no match): the
\* comma and the longest run of whitespace after which the lookahead holds
SeparatorLen(s, i) ==
    IF SeparatorTails(s, i) = {} THEN 0 ELSE 1 + Max(SeparatorTails(s, i))

\* i scans s, start is where the current piece begins
RECURSIVE SplitFrom(_, _, _)

\* the comma s[i] with its separator of length n (0: not a separator)
SplitAt(s, i, start, n) ==
    IF n > 0 THEN <<SubSeq(s, start, i - 1)>> \o SplitFrom(s, i + n, i + n)
    ELSE SplitFrom(s, i + 1, start)

SplitFrom(s, i, start) ==
    IF i > Len(s) THEN <<SubSeq(s, start, Len(s))>>
    ELSE IF s[i] = "," THEN SplitAt(s, i, start, SeparatorLen(s, i))
    ELSE SplitFrom(s, i + 1, start)

\* the texts of the sibling groups
split(v) == SplitFrom(v, 1, 1)

-----------------------------------------------------------------------------
(* Tree builder: createExpressionTree.  A configuration c is the state of  *)
(* a run: the heap, the shared list c.nodes, the base of the current call, *)
(* and the stack of the calls that wait for a result (the two calls that   *)
(* are not in tail position).  One step is one invocation of the function. *)

Top(st) == st[Len(st)]

Pop(st) == SubSeq(st, 1, Len(st) - 1)

StartBuild(h, b, ns) ==
    [heap |-> h, nodes |-> ns, base |-> b, stack |-> <<>>,
     status |-> "run", root |-> 0]

\* a rotation on an equal weight as well
OutweighsOrEqual(nodeWeight, baseWeight) == nodeWeight >= baseWeight

\* node.weight > base.weight
Outweighs(nodeWeight, baseWeight) == nodeWeight > baseWeight

\* the function node a group is handed to as argument list (0: none)
ArgumentTarget(h, b) ==
    IF h[b].node_b # 0 /\ h[h[b].node_b].type = "FUNCTION" THEN h[b].node_b
    ELSE IF h[b].node_a # 0 /\ h[h[b].node_a].type = "FUNCTION" THEN h[b].node_a
    ELSE IF h[b].type = "FUNCTION" THEN b
    ELSE 0

\* which branch a call takes
AtReturn(c) == c.status = "run" /\ c.nodes = <<>>

AtOperator(c) ==
    c.status = "run" /\ c.nodes # <<>> /\ c.heap[Head(c.nodes)].type = "OPERATOR"

AtRotate(c) ==
    /\ AtOperator(c)
    /\ c.heap[c.base].type = "OPERATOR"
    /\ Outweighs(c.heap[Head(c.nodes)].weight, c.heap[c.base].weight)

AtComparator(c) ==
    c.status = "run" /\ c.nodes # <<>> /\ c.heap[Head(c.nodes)].type = "COMPARATOR"

AtGroup(c) ==
    c.status = "run" /\ c.nodes # <<>> /\ c.heap[Head(c.nodes)].type = "TOKEN_GROUP"

AtLeaf(c) ==
    /\ c.status = "run" /\ c.nodes # <<>>
    /\ c.heap[Head(c.nodes)].type \notin {"OPERATOR", "COMPARATOR", "TOKEN_GROUP"}

\* if len(nodes) == 0: return base -- to the caller, or out of the run
ReturnStep(c) ==
    IF c.stack = <<>>
    THEN [c EXCEPT !.status = "done", !.root = c.base]
    ELSE LET f == Top(c.stack)
         IN  [c EXCEPT !.heap[f.target].node_b = c.base,
                       !.base = f.base,
                       !.stack = Pop(c.stack)]

\* node.node_a = base.node_b; base.node_b = createExpressionTree(node, nodes)
RotateStep(c) ==
    LET n == Head(c.nodes)
    IN  [c EXCEPT !.heap[n].node_a = c.heap[c.base].node_b,
                  !.nodes = Tail(c.nodes),
                  !.stack = Append(c.stack,
                              [line |-> 409, base |-> c.base, target |-> c.base]),
                  !.base = n]

\* node.node_a = base; return createExpressionTree(node, nodes)
NewRootStep(c) ==
    LET n == Head(c.nodes)
    IN  [c EXCEPT !.heap[n].node_a = c.base,
                  !.nodes = Tail(c.nodes),
                  !.base = n]

\* node.node_a = base
\* node.node_b = createExpressionTree(nodes.pop(0) if len(nodes) > 0 else Node(), nodes)
ComparatorStep(c) ==
    LET n == Head(c.nodes)
        rest == Tail(c.nodes)
        h1 == [c.heap EXCEPT ![n].node_a = c.base]
        fr == [line |-> 415, base |-> c.base, target |-> n]
    IN  IF rest # <<>>
        THEN [c EXCEPT !.heap = h1, !.nodes = Tail(rest),
                       !.stack = Append(c.stack, fr), !.base = Head(rest)]
        ELSE [c EXCEPT !.heap = Append(h1, EmptyNode), !.nodes = rest,
                       !.stack = Append(c.stack, fr), !.base = Len(h1) + 1]

\* list(map(TokenGroupNode, texts))
GroupNodes(texts) == [i \in 1..Len(texts) |-> NewNode("TOKEN_GROUP", texts[i])]

\* the ids of k nodes appended to the heap h
NewIds(h, k) == [i \in 1..k |-> Len(h) + i]

\* the sibling groups with the given texts become new nodes and the
\* argument list of f
AttachGroups(h, f, texts) ==
    [h EXCEPT ![f].arguments = NewIds(h, Len(texts))] \o GroupNodes(texts)

\* f.arguments = node.split()
AssignArguments(h, f, n) == AttachGroups(h, f, split(h[n].value))

\* elif node.type is NodeType.TOKEN_GROUP
GroupStep(c) ==
    LET n == Head(c.nodes)
        b == c.base
        f == ArgumentTarget(c.heap, b)
    IN  IF f # 0
        THEN [c EXCEPT !.heap = AssignArguments(c.heap, f, n), !.nodes = Tail(c.nodes)]
        ELSE IF c.heap[b].node_a = 0
        THEN [c EXCEPT !.heap[b].node_a = n, !.nodes = Tail(c.nodes)]
        ELSE IF c.heap[b].node_b = 0
        THEN [c EXCEPT !.heap[b].node_b = n, !.nodes = Tail(c.nodes)]
        ELSE [c EXCEPT !.status = "error", !.nodes = Tail(c.nodes)]

\* a leaf that takes the right slot of a base whose slots are both filled
LeafStepOverwrite(c) ==
    LET n == Head(c.nodes)
        b == c.base
    IN  IF c.heap[b].value = None
        THEN [c EXCEPT !.base = n, !.nodes = Tail(c.nodes)]
        ELSE IF c.heap[b].node_a = 0
        THEN [c EXCEPT !.heap[b].node_a = n, !.nodes = Tail(c.nodes)]
        ELSE [c EXCEPT !.heap[b].node_b = n, !.nodes = Tail(c.nodes)]

\* the remaining kinds: elif base.value is None ... else raise
LeafStep(c) ==
    LET n == Head(c.nodes)
        b == c.base
    IN  IF c.heap[b].value = None
        THEN [c EXCEPT !.base = n, !.nodes = Tail(c.nodes)]
        ELSE IF c.heap[b].node_a = 0
        THEN [c EXCEPT !.heap[b].node_a = n, !.nodes = Tail(c.nodes)]
        ELSE IF c.heap[b].node_b = 0
        THEN [c EXCEPT !.heap[b].node_b = n, !.nodes = Tail(c.nodes)]
        ELSE [c EXCEPT !.status = "error", !.nodes = Tail(c.nodes)]

\* one invocation of createExpressionTree
BuildStep(c) ==
    CASE AtReturn(c) -> ReturnStep(c)
      [] AtRotate(c) -> RotateStep(c)
      [] AtOperator(c) /\ ~AtRotate(c) -> NewRootStep(c)
      [] AtComparator(c) -> ComparatorStep(c)
      [] AtGroup(c) -> GroupStep(c)
      [] AtLeaf(c) -> LeafStep(c)

\* createExpressionTree(base, nodes) run to its end
RECURSIVE RunBuild(_)
RunBuild(c) == IF c.status # "run" THEN c ELSE RunBuild(BuildStep(c))

\* createExpressionTree(base, nodes) on the outcome t of extractNodes
BuildTokens(b, t) ==
    IF t.raised
    THEN [StartBuild(t.heap, b, <<>>) EXCEPT !.status = "error"]
    ELSE RunBuild(StartBuild(t.heap, b, t.nodes))

\* createExpressionTree(Node(), extractNodes(text)) on the heap h; status
\* "error" when the tokenizer or the builder raises
BuildText(h, text) == BuildTokens(Len(h) + 1, extractNodes(Append(h, EmptyNode), text))

-----------------------------------------------------------------------------
(* Values.  A Python float is modelled by the rational n/d it denotes      *)
(* (exact for the literals and operators of the inputs below); a value the *)
(* rationals cannot hold -- pi, a logarithm, a root, a date, a duration,   *)
(* arithmetic on those -- is kept as the uninterpreted application of the  *)
(* function s to the argument values a: it stands for whatever Python      *)
(* yields on those operands, a value or an exception, which is a function  *)
(* of the operands.  Every value has the same fields.                      *)

Val(kind, num, den, text, args) ==
    [k |-> kind, n |-> num, d |-> den, s |-> text, a |-> args]

Num(num, den) ==
    Val("num", num \div GCD(Abs(num), den), den \div GCD(Abs(num), den), <<>>, <<>>)

NoneVal == Val("none", 0, 1, <<>>, <<>>)

BoolVal(b) == Val("bool", IF b THEN 1 ELSE 0, 1, <<>>, <<>>)

StrVal(text) == Val("str", 0, 1, text, <<>>)

\* the value of datetime.now() when the clock reads t
TimeVal(t) == Val("time", t, 1, <<>>, <<>>)

Opaque(f, args) == Val("opaque", 0, 1, f, args)

\* a raised exception
Raise(msg) == Val("raise", 0, 1, <<msg>>, <<>>)

Raised(v) == v.k = "raise"

\* int, float and bool take part in arithmetic
IsNumber(v) == v.k \in {"num", "bool"}

IsInteger(v) == IsNumber(v) /\ v.d = 1

Uninterpreted(v) == v.k = "opaque"

\* Python's == on interpreted values
PyEq(x, y) ==
    IF IsNumber(x) /\ IsNumber(y) THEN x.n = y.n /\ x.d = y.d
    ELSE x = y

\* Python's truth value of a number, None or a string
Truthy(v) ==
    CASE IsNumber(v) -> v.n # 0
      [] v.k = "none" -> FALSE
      [] v.k = "str" -> v.s # <<>>
      [] OTHER -> TRUE

\* the quotient x / y, y # 0, as numerator and positive denominator
QuotNum(x, y) == x.n * y.d * (IF y.n < 0 THEN -1 ELSE 1)

QuotDen(x, y) == x.d * Abs(y.n)

\* floor(x / y)
FloorQuot(x, y) == QuotNum(x, y) \div QuotDen(x, y)

\* x ** y
Power(x, y) ==
    IF y.d # 1 THEN Opaque(<<"*", "*">>, <<x, y>>)
    ELSE IF y.n >= 0 THEN Num(IPow(x.n, y.n), IPow(x.d, y.n))
    ELSE IF x.n = 0 THEN Raise("ZeroDivisionError")
    ELSE Num(IPow(x.d, -y.n) * (IF x.n < 0 /\ (-y.n) % 2 = 1 THEN -1 ELSE 1),
             IPow(Abs(x.n), -y.n))

\* the binary operators of OperatorNode.exec on two values
Arith(op, x, y) ==
    IF Uninterpreted(x) \/ Uninterpreted(y) THEN Opaque(op, <<x, y>>)
    ELSE IF op = <<"+">> /\ x.k = "str" /\ y.k = "str" THEN StrVal(x.s \o y.s)
    \* other arithmetic on strings and dates is not interpreted
    ELSE IF x.k \in {"str", "time"} \/ y.k \in {"str", "time"} THEN Opaque(op, <<x, y>>)
    ELSE IF x.k = "none" \/ y.k = "none" THEN Raise("TypeError")
    ELSE CASE op = <<"+">> -> Num(x.n * y.d + y.n * x.d, x.d * y.d)
           [] op = <<"-">> -> Num(x.n * y.d - y.n * x.d, x.d * y.d)
           [] op = <<"*">> -> Num(x.n * y.n, x.d * y.d)
           [] op = <<"^">> -> Power(x, y)
           [] OTHER ->
                IF y.n = 0 THEN Raise("ZeroDivisionError")
                ELSE CASE op = <<"/">> -> Num(QuotNum(x, y), QuotDen(x, y))
                       [] op = <<"/", "/">> -> Num(FloorQuot(x, y), 1)
                       \* x - (x // y) * y
                       [] op = <<"%">> ->
                            Num(x.n * y.d - FloorQuot(x, y) * y.n * x.d, x.d * y.d)

\* abs(v)
AbsVal(v) ==
    CASE IsNumber(v) -> Num(Abs(v.n), v.d)
      [] Uninterpreted(v) -> Opaque(<<"a", "b", "s">>, <<v>>)
      [] OTHER -> Raise("TypeError")

\* -1 * v
NegVal(v) ==
    CASE IsNumber(v) -> Num(-v.n, v.d)
      [] v.k = "str" -> StrVal(<<>>)
      [] Uninterpreted(v) -> Opaque(<<"*">>, <<Num(-1, 1), v>>)
      [] OTHER -> Raise("TypeError")

RECURSIVE Fact(_)
Fact(i) == IF i <= 1 THEN 1 ELSE i * Fact(i - 1)

\* math.factorial(v): of a non-negative integral number (a float with an
\* integral value is accepted up to Python 3.9)
FactorialVal(v) ==
    IF IsInteger(v) /\ v.n >= 0 THEN Num(Fact(v.n), 1)
    ELSE IF Uninterpreted(v) THEN Opaque(<<"!">>, <<v>>)
    ELSE IF IsNumber(v) THEN Raise("ValueError")
    ELSE Raise("TypeError")

DigitValue(ch) ==
    CASE ch = "0" -> 0 [] ch = "1" -> 1 [] ch = "2" -> 2 [] ch = "3" -> 3
      [] ch = "4" -> 4 [] ch = "5" -> 5 [] ch = "6" -> 6 [] ch = "7" -> 7
      [] ch = "8" -> 8 [] ch = "9" -> 9

RECURSIVE DigitsValue(_)
DigitsValue(ds) ==
    IF ds = <<>> THEN 0
    ELSE 10 * DigitsValue(SubSeq(ds, 1, Len(ds) - 1)) + DigitValue(ds[Len(ds)])

\* float(text) for a text of digits and dots
ParseFloat(text) ==
    LET dots == {i \in 1..Len(text) : text[i] = "."}
        digits == SelectSeq(text, LAMBDA ch : ch # ".")
    IN  IF Cardinality(dots) > 1 \/ digits = <<>> \/ \E i \in 1..Len(digits) : digits[i] \notin Digits
        THEN Raise("ValueError")
        ELSE IF dots = {} THEN Num(DigitsValue(digits), 1)
        ELSE Num(DigitsValue(digits), IPow(10, Len(text) - Min(dots)))

-----------------------------------------------------------------------------
(* Evaluator: node.exec()(kwargs).  Exec(h, n, kwargs, now) evaluates    *)
(* node n of heap h while the clock reads now; it returns the value and    *)
(* the heap after the evaluation (a group tokenizes and builds its text on *)
(* the heap each time it is evaluated).                                    *)

Result(v, h) == [v |-> v, heap |-> h]

\* kwargs.get(name, None)
Lookup(kwargs, name) == IF name \in DOMAIN kwargs THEN kwargs[name] ELSE NoneVal

RECURSIVE Exec(_, _, _, _)

\* a.exec()(kwargs) <op> b.exec()(kwargs): left operand first
ExecBinary(h, op, a, b, kwargs, now) ==
    LET ra == Exec(h, a, kwargs, now)
        rb == Exec(ra.heap, b, kwargs, now)
    IN  IF Raised(ra.v) THEN ra
        ELSE IF Raised(rb.v) THEN rb
        ELSE Result(Arith(op, ra.v, rb.v), rb.heap)

\* OperatorNode.exec
OperatorExec(h, n, kwargs, now) ==
    LET a == h[n].node_a
        b == h[n].node_b
        op == h[n].value
        ra == Exec(h, a, kwargs, now)
        rb == Exec(h, b, kwargs, now)
    IN  IF a = 0 /\ b = 0 THEN Result(Raise("Both targets on opperand are None"), h)
        ELSE IF op = <<"+">>
        THEN IF a = 0
             THEN IF Raised(rb.v) THEN rb ELSE Result(AbsVal(rb.v), rb.heap)
             ELSE ExecBinary(h, op, a, b, kwargs, now)
        ELSE IF op = <<"-">>
        THEN IF a = 0 \/ h[a].value = None
             THEN IF Raised(rb.v) THEN rb ELSE Result(NegVal(rb.v), rb.heap)
             ELSE ExecBinary(h, op, a, b, kwargs, now)
        ELSE IF op = <<"!">>
        THEN IF b = 0
             THEN IF Raised(ra.v) THEN ra ELSE Result(FactorialVal(ra.v), ra.heap)
             ELSE Result(Raise("Factorial Operand can not have second target"), h)
        ELSE IF a = 0 \/ b = 0 THEN Result(Raise("One target on opperand is None"), h)
        ELSE ExecBinary(h, op, a, b, kwargs, now)

\* the ordering comparisons of two values
Less(x, y) == x.n * y.d < y.n * x.d

Compare(cmp, x, y) ==
    IF IsNumber(x) /\ IsNumber(y)
    THEN BoolVal(CASE cmp = <<"<">> -> Less(x, y)
                   [] cmp = <<"<", "=">> -> ~Less(y, x)
                   [] cmp = <<">">> -> Less(y, x)
                   [] cmp = <<">", "=">> -> ~Less(x, y))
    ELSE IF Uninterpreted(x) \/ Uninterpreted(y) THEN Opaque(cmp, <<x, y>>)
    ELSE IF x.k = "none" \/ y.k = "none" THEN Raise("TypeError")
    ELSE Opaque(cmp, <<x, y>>)

\* ComparatorNode.exec (the second NOT_EQUAL branch is never reached)
ComparatorExec(h, n, kwargs, now) ==
    LET a == h[n].node_a
        b == h[n].node_b
        cmp == h[n].value
        ra == Exec(h, a, kwargs, now)
        rb == Exec(ra.heap, b, kwargs, now)
    IN  IF a = 0 \/ b = 0 THEN Result(Raise("1 of 2 targets on comparator is None"), h)
        ELSE IF Raised(ra.v) THEN ra
        ELSE IF Uninterpreted(ra.v) THEN Result(Opaque(cmp, <<ra.v>>), ra.heap)
        \* or / and: the right operand is evaluated only when the left does not decide
        ELSE IF cmp = <<"|">> /\ Truthy(ra.v) THEN ra
        ELSE IF cmp = <<"&">> /\ ~Truthy(ra.v) THEN ra
        ELSE IF cmp = <<"|", "|">> /\ Truthy(ra.v) THEN Result(BoolVal(TRUE), ra.heap)
        ELSE IF cmp = <<"&", "&">> /\ ~Truthy(ra.v) THEN Result(BoolVal(FALSE), ra.heap)
        ELSE IF Raised(rb.v) THEN rb
        ELSE IF Uninterpreted(rb.v) THEN Result(Opaque(cmp, <<ra.v, rb.v>>), rb.heap)
        ELSE Result(CASE cmp = <<"=", "=">> -> BoolVal(PyEq(ra.v, rb.v))
                      [] cmp = <<"!", "=">> -> BoolVal(~PyEq(ra.v, rb.v))
                      [] cmp \in {<<"|">>, <<"&">>} -> rb.v
                      [] cmp \in {<<"|", "|">>, <<"&", "&">>} -> BoolVal(Truthy(rb.v))
                      [] OTHER -> Compare(cmp, ra.v, rb.v),
                    rb.heap)

\* sum(map(lambda a: a.exec()(kwargs), arguments)), acc the sum so far
RECURSIVE SumArguments(_, _, _, _, _)

\* the sum acc and the evaluated argument r
AddValue(total, h, rest, kwargs, now) ==
    IF Raised(total) THEN Result(total, h)
    ELSE SumArguments(h, rest, kwargs, now, total)

AddArgument(r, rest, kwargs, now, acc) ==
    IF Raised(r.v) THEN r
    ELSE AddValue(Arith(<<"+">>, acc, r.v), r.heap, rest, kwargs, now)

SumArguments(h, args, kwargs, now, acc) ==
    IF args = <<>> THEN Result(acc, h)
    ELSE AddArgument(Exec(h, Head(args), kwargs, now), Tail(args), kwargs, now, acc)

\* v in map(lambda a: a.exec()(kwargs), args): stops at the first equal one
RECURSIVE InArguments(_, _, _, _, _)
InArguments(h, args, kwargs, now, v) ==
    IF args = <<>> THEN Result(BoolVal(FALSE), h)
    ELSE LET r == Exec(h, Head(args), kwargs, now)
         IN  IF Raised(r.v) THEN r
             ELSE IF Uninterpreted(r.v)
             THEN Result(Opaque(<<"i", "n">>, <<v, r.v>>), r.heap)
             ELSE IF PyEq(v, r.v) THEN Result(BoolVal(TRUE), r.heap)
             ELSE InArguments(r.heap, Tail(args), kwargs, now, v)

\* sum(...) / (len(arguments) or 1), total the outcome of the sum
Average(total, count) ==
    IF Raised(total.v) THEN total
    ELSE Result(Arith(<<"/">>, total.v, Num(count, 1)), total.heap)

\* the functions that also read arguments[1] when it is there
TwoArgumentFunctions == { <<"a","s","D","a","t","e">>, <<"l","o","g">> }

\* FunctionNode.exec
FunctionExec(h, n, kwargs, now) ==
    LET f == h[n].value
        args == h[n].arguments
        r1 == Exec(h, args[1], kwargs, now)
        r2 == Exec(r1.heap, args[2], kwargs, now)
    IN  IF f = <<"t","o","d","a","y">>
        \* lambda : datetime.now() takes no keyword argument
        THEN IF DOMAIN kwargs = {} THEN Result(TimeVal(now), h)
             ELSE Result(Raise("TypeError"), h)
        ELSE IF Len(args) = 0 THEN Result(Raise("Function argument is None"), h)
        ELSE IF f = <<"s","u","m">> THEN SumArguments(h, args, kwargs, now, Num(0, 1))
        ELSE IF f = <<"a","v","g">>
        THEN Average(SumArguments(h, args, kwargs, now, Num(0, 1)), Len(args))
        ELSE IF Raised(r1.v) THEN r1
        ELSE IF Uninterpreted(r1.v) THEN Result(Opaque(f, <<r1.v>>), r1.heap)
        ELSE IF f = <<"n","c","h","a","r">>
        THEN Result(IF r1.v.k = "str" THEN Num(Len(r1.v.s), 1) ELSE Raise("TypeError"),
                    r1.heap)
        ELSE IF f = <<"i","s","N","u","l","l">>
        THEN Result(BoolVal(r1.v = NoneVal \/ r1.v = StrVal(<<>>)), r1.heap)
        ELSE IF f = <<"i","n">>
        THEN InArguments(r1.heap, Tail(args), kwargs, now, r1.v)
        ELSE IF f \in TwoArgumentFunctions /\ Len(args) > 1
        THEN IF Raised(r2.v) THEN r2 ELSE Result(Opaque(f, <<r1.v, r2.v>>), r2.heap)
        ELSE Result(Opaque(f, <<r1.v>>), r1.heap)

\* tree.exec()(kwargs) for the outcome c of the build
ExecBuilt(c, kwargs, now) ==
    IF c.status = "error" THEN Result(Raise("group"), c.heap)
    ELSE Exec(c.heap, c.root, kwargs, now)

\* a group that keeps the tree built from its text in its left slot
TokenGroupExecCached(h, n, kwargs, now) ==
    LET c == BuildText(h, h[n].value)
    IN  ExecBuilt([c EXCEPT !.heap[n].node_a = c.root], kwargs, now)

\* TokenGroupNode.exec: tree = createExpressionTree(Node(), extractNodes(self.value))
TokenGroupExec(h, n, kwargs, now) == ExecBuilt(BuildText(h, h[n].value), kwargs, now)

\* node.exec()(kwargs), by the class of the node; the node None has no exec
Exec(h, n, kwargs, now) ==
    IF n = 0 THEN Result(Raise("AttributeError"), h)
    ELSE CASE h[n].type = "None" ->
                Result(Raise("Can not execute on an empty node"), h)
           [] h[n].type = "STRING" -> Result(StrVal(h[n].value), h)
           [] h[n].type = "NUMBER" -> Result(ParseFloat(h[n].value), h)
           [] h[n].type = "CONSTANT" ->
                Result(IF h[n].value = <<"p", "i">> THEN Opaque(<<"p", "i">>, <<>>)
                       ELSE Raise("not a defined constant"), h)
           [] h[n].type = "VARIABLE" -> Result(Lookup(kwargs, h[n].value), h)
           [] h[n].type = "OPERATOR" -> OperatorExec(h, n, kwargs, now)
           [] h[n].type = "COMPARATOR" -> ComparatorExec(h, n, kwargs, now)
           [] h[n].type = "FUNCTION" -> FunctionExec(h, n, kwargs, now)
           [] h[n].type = "TOKEN_GROUP" -> TokenGroupExec(h, n, kwargs, now)

-----------------------------------------------------------------------------
(* Inputs *)

\* longest text over CharAlphabet
MaxLen == 5

\* most lexemes in a text made of lexemes
MaxLexemes == 3

\* most operands in an arithmetic text
MaxOperands == 4

\* longest argument text handed to split
MaxArgLen == 7

\* evaluations of a built tree
MaxEvals == 2

CharAlphabet == {"2", "+", "-", "(", ")"}

Lexemes ==
    { <<"2">>, <<"+">>, <<"*">>, <<"<">>, <<"s", "u", "m", "(", "2", ",", "3", ")">>,
      <<"(", "2", ")">>, <<"[", "x", "]">>, <<"t", "o", "d", "a", "y", "(", ")">> }

ArithmeticOperators ==
    {<<"+">>, <<"-">>, <<"*">>, <<"/">>, <<"%">>, <<"/", "/">>, <<"^">>}

ArithmeticLiterals == {<<"2">>}

ArgAlphabet == {"a", ",", " ", "(", ")"}

SeqsUpTo(S, n) == UNION {[1..k -> S] : k \in 0..n}

CharTexts == SeqsUpTo(CharAlphabet, MaxLen)

LexemeTexts == {Concat(ls) : ls \in SeqsUpTo(Lexemes, MaxLexemes)}

\* number (op number)*
RECURSIVE ArithmeticTexts(_)
ArithmeticTexts(k) ==
    IF k = 1 THEN ArithmeticLiterals
    ELSE {t \o op \o lit : t \in ArithmeticTexts(k - 1),
                           op \in ArithmeticOperators, lit \in ArithmeticLiterals}

Inputs ==
    CharTexts \cup LexemeTexts \cup UNION {ArithmeticTexts(k) : k \in 1..MaxOperands}

\* the environments of an evaluation: x unbound, x bound
Envs == { [name \in {} |-> NoneVal], [name \in {<<"x">>} |-> Num(2, 1)] }

\* the readings of the wall clock
Clock == {1, 2}

-----------------------------------------------------------------------------
(* The program: tokenize the expression, build the tree one call of        *)
(* createExpressionTree at a time, evaluate the root.                      *)

Init ==
    /\ expression \in Inputs
    /\ heap = <<>>
    /\ nodes = <<>>
    /\ base = 0
    /\ stack = <<>>
    /\ pc = "tokenize"
    /\ root = 0
    /\ results = <<>>

\* the run of createExpressionTree the variables hold
Current ==
    [heap |-> heap, nodes |-> nodes, base |-> base, stack |-> stack,
     status |-> IF pc = "build" THEN "run" ELSE pc, root |-> root]

Install(c) ==
    /\ heap' = c.heap
    /\ nodes' = c.nodes
    /\ base' = c.base
    /\ stack' = c.stack
    /\ pc' = IF c.status = "run" THEN "build" ELSE c.status
    /\ root' = c.root
    /\ UNCHANGED <<expression, results>>

\* the call createExpressionTree(Node(), nodes) on the outcome t of extractNodes
CallBuild(t) ==
    IF t.raised THEN [StartBuild(t.heap, 0, <<>>) EXCEPT !.status = "error"]
    ELSE StartBuild(Append(t.heap, EmptyNode), Len(t.heap) + 1, t.nodes)

\* nodes = extractNodes(expression); createExpressionTree(Node(), nodes) is called
ExtractNodes ==
    /\ pc = "tokenize"
    /\ Install(CallBuild(extractNodes(heap, expression)))

Return == AtReturn(Current) /\ stack # <<>> /\ Install(ReturnStep(Current))

Finish == AtReturn(Current) /\ stack = <<>> /\ Install(ReturnStep(Current))

Rotate == AtRotate(Current) /\ Install(RotateStep(Current))

NewRoot == AtOperator(Current) /\ ~AtRotate(Current) /\ Install(NewRootStep(Current))

Comparator == AtComparator(Current) /\ Install(ComparatorStep(Current))

Group == AtGroup(Current) /\ Install(GroupStep(Current))

Leaf == AtLeaf(Current) /\ Install(LeafStep(Current))

\* the outcome r of an evaluation under kwargs
Record(kwargs, r) ==
    /\ heap' = r.heap
    /\ results' = Append(results, [kwargs |-> kwargs, value |-> r.v])

\* the environments the next evaluation may be made under: any for the
\* first, the same again afterwards
NextEnvs == IF results = <<>> THEN Envs ELSE {results[1].kwargs}

\* tree.exec()(kwargs)
Evaluate ==
    /\ pc = "done"
    /\ Len(results) < MaxEvals
    /\ \E kwargs \in NextEnvs, now \in Clock :
          Record(kwargs, Exec(heap, root, kwargs, now))
    /\ UNCHANGED <<expression, nodes, base, stack, pc, root>>

Next ==
    \/ ExtractNodes
    \/ Return
    \/ Finish
    \/ Rotate
    \/ NewRoot
    \/ Comparator
    \/ Group
    \/ Leaf
    \/ Evaluate

Spec == Init /\ [][Next]_vars

-----------------------------------------------------------------------------
(* TokenGroupNode.split on its own: a group node holding an argument text  *)
(* is split into its sibling groups.                                       *)

\* the parentheses of s up to i that are open at i (negative: a closer
\* without its opener)
RECURSIVE DepthAt(_, _)
DepthAt(s, i) ==
    IF i = 0 THEN 0
    ELSE DepthAt(s, i - 1)
         + (IF s[i] = "(" THEN 1 ELSE IF s[i] = ")" THEN -1 ELSE 0)

Balanced(s) == DepthAt(s, Len(s)) = 0 /\ \A i \in 1..Len(s) : DepthAt(s, i) >= 0

\* the texts extractNodes stores in the group that follows a function name:
\* balanced, nested no deeper than the group alternative matches, without a
\* leading "(" or a trailing ")", and not empty
ArgumentTexts ==
    {s \in SeqsUpTo(ArgAlphabet, MaxArgLen) :
        /\ s # <<>> /\ s[1] # "(" /\ s[Len(s)] # ")"
        /\ Balanced(s)
        /\ \A i \in 1..Len(s) : DepthAt(s, i) < GroupNesting}

InitSplit ==
    /\ expression \in ArgumentTexts
    /\ heap = <<NewNode("TOKEN_GROUP", expression)>>
    /\ nodes = <<>>
    /\ base = 1
    /\ stack = <<>>
    /\ pc = "split"
    /\ root = 0
    /\ results = <<>>

\* nodes = base.split(): the returned list holds new group nodes
Split ==
    /\ pc = "split"
    /\ heap' = heap \o GroupNodes(split(heap[base].value))
    /\ nodes' = NewIds(heap, Len(split(heap[base].value)))
    /\ pc' = "returned"
    /\ UNCHANGED <<expression, base, stack, root, results>>

NextSplit == Split

SpecSplit == InitSplit /\ [][NextSplit]_vars

-----------------------------------------------------------------------------
(* Properties, part 1: what the expected outcomes are stated with *)

\* the tokens of the expression: extractNodes on an empty heap, so that
\* token i is node i, as in the run the variables hold
Tokens == extractNodes(<<>>, expression)

\* number (op number)* with op a binary arithmetic operator
IsArithmetic(t) ==
    /\ ~t.raised
    /\ Len(t.nodes) % 2 = 1
    /\ \A i \in 1..Len(t.nodes) :
          IF i % 2 = 1
          THEN t.heap[i].type = "NUMBER" /\ ~Raised(ParseFloat(t.heap[i].value))
          ELSE t.heap[i].type = "OPERATOR" /\ t.heap[i].value \in ArithmeticOperators

\* standard precedence: ^ above * / % //, those above + -
StandardLevel(op) ==
    IF op = <<"^">> THEN 2 ELSE IF op \in {<<"+">>, <<"-">>} THEN 0 ELSE 1

\* x op y, an exception in an operand going through
Apply(op, x, y) ==
    IF Raised(x) THEN x ELSE IF Raised(y) THEN y ELSE Arith(op, x, y)

\* vals[1] ops[1] vals[2] ops[2] ... after the operators of level w have been
\* applied, from left to right
RECURSIVE Reduce(_, _, _)
Reduce(vals, ops, w) ==
    IF ops = <<>> THEN [vals |-> vals, ops |-> ops]
    ELSE IF StandardLevel(Head(ops)) = w
    THEN Reduce(<<Apply(Head(ops), vals[1], vals[2])>> \o SubSeq(vals, 3, Len(vals)),
                Tail(ops), w)
    ELSE LET r == Reduce(Tail(vals), Tail(ops), w)
         IN  [vals |-> <<vals[1]>> \o r.vals, ops |-> <<Head(ops)>> \o r.ops]

\* the value of an arithmetic token sequence under standard precedence
StandardValue(t) ==
    LET k == Len(t.nodes)
        vals == [i \in 1..((k + 1) \div 2) |-> ParseFloat(t.heap[2 * i - 1].value)]
        ops == [i \in 1..((k - 1) \div 2) |-> t.heap[2 * i].value]
        r2 == Reduce(vals, ops, 2)
        r1 == Reduce(r2.vals, r2.ops, 1)
        r0 == Reduce(r1.vals, r1.ops, 0)
    IN  r0.vals[1]

\* the text contains the name today
ContainsToday(s) == \E p \in 1..Len(s) : IsPrefixAt(s, p, <<"t", "o", "d", "a", "y">>)

\* the value of a text taken as an expression of its own
ValueOf(text, kwargs) == ExecBuilt(BuildText(<<>>, text), kwargs, 1).v

\* (E1) op E2: a group, a binary operator, a number
IsGroupFirst(t) ==
    /\ ~t.raised
    /\ Len(t.nodes) = 3
    /\ t.heap[1].type = "TOKEN_GROUP"
    /\ t.heap[2].type = "OPERATOR" /\ t.heap[2].value \in ArithmeticOperators
    /\ t.heap[3].type = "NUMBER"

\* value(E1) op value(E2)
GroupFirstValue(t, kwargs) ==
    Apply(t.heap[2].value, ValueOf(t.heap[1].value, kwargs), ParseFloat(t.heap[3].value))

\* the tree under node n: type, text, children, argument texts
RECURSIVE Shape(_, _)
Shape(h, n) ==
    IF n = 0 THEN <<>>
    ELSE <<h[n].type, h[n].value, Shape(h, h[n].node_a), Shape(h, h[n].node_b),
           [i \in DOMAIN h[n].arguments |-> h[h[n].arguments[i]].value]>>

\* the tree createExpressionTree(Node(), ns) returns for the tokens ns of t
TreeOf(t, ns) ==
    LET c == RunBuild(StartBuild(Append(t.heap, EmptyNode), Len(t.heap) + 1, ns))
    IN  IF c.status = "done" THEN Shape(c.heap, c.root) ELSE <<"SyntaxError">>

Comparators(t) == {i \in 1..Len(t.nodes) : t.heap[i].type = "COMPARATOR"}

\* L cmp R: tokens before the first comparator and tokens after it
IsComparison(t) ==
    /\ ~t.raised
    /\ Comparators(t) # {}
    /\ 1 < Min(Comparators(t)) /\ Min(Comparators(t)) < Len(t.nodes)

\* the pieces of s between its commas of depth 0, each comma taking the
\* whitespace that follows it
RECURSIVE TopLevelFrom(_, _, _)
TopLevelFrom(s, i, start) ==
    IF i > Len(s) THEN <<SubSeq(s, start, Len(s))>>
    ELSE IF s[i] = "," /\ DepthAt(s, i) = 0
    THEN <<SubSeq(s, start, i - 1)>>
         \o TopLevelFrom(s, RunEnd(s, i + 1, Whitespace) + 1,
                         RunEnd(s, i + 1, Whitespace) + 1)
    ELSE TopLevelFrom(s, i + 1, start)

TopLevelArguments(s) == TopLevelFrom(s, 1, 1)

\* the operand x of an expression "+" x, <<>> when the expression is no such
PlusOperand ==
    IF Len(expression) >= 2 /\ expression[1] = "+" THEN Tail(expression) ELSE <<>>

IsDigits(x) == x # <<>> /\ \A i \in 1..Len(x) : x[i] \in Digits

\* a number, or a number with a minus sign
IsSignedNumber(x) == IsDigits(x) \/ (x # <<>> /\ x[1] = "-" /\ IsDigits(Tail(x)))

SignedValue(x) == IF x[1] = "-" THEN NegVal(ParseFloat(Tail(x))) ELSE ParseFloat(x)

\* the texts the group alternative of tokenRegex matches in s, in order
RECURSIVE GroupMatchesFrom(_, _)
GroupMatchesFrom(s, p) ==
    IF p > Len(s) THEN <<>>
    ELSE LET m == tokenRegex(s, p)
         IN  IF m.g = 0 THEN GroupMatchesFrom(s, p + 1)
             ELSE (IF nodeTypes[m.g] = "TOKEN_GROUP" THEN <<SubSeq(s, p, m.end)>>
                   ELSE <<>>) \o GroupMatchesFrom(s, m.end + 1)

\* a matched group without its one enclosing pair of parentheses
Inner(matched) == SubSeq(matched, 2, Len(matched) - 1)

\* the texts the group tokens of s are to hold
ExpectedGroups(s) ==
    LET ms == GroupMatchesFrom(s, 1)
    IN  SelectSeq([i \in 1..Len(ms) |-> Inner(ms[i])], LAMBDA v : v # <<>>)

\* extractNodes has just returned: every token is still in the list
JustTokenized ==
    /\ pc = "build" /\ stack = <<>>
    /\ base = Len(heap)
    /\ nodes = [i \in 1..(Len(heap) - 1) |-> i]

\* the texts of the group tokens in the list
StoredGroups ==
    LET gs == SelectSeq(nodes, LAMBDA n : heap[n].type = "TOKEN_GROUP")
    IN  [i \in 1..Len(gs) |-> heap[gs[i]].value]

\* the step changes a child slot of n that holds a node
RewritesA(n) == heap[n].node_a # 0 /\ heap'[n].node_a # heap[n].node_a

RewritesB(n) == heap[n].node_b # 0 /\ heap'[n].node_b # heap[n].node_b

\* the step returns into the rotation of line 409 whose base is n
RotationReturns(n) ==
    /\ nodes = <<>> /\ stack # <<>>
    /\ Top(stack).line = 409 /\ Top(stack).target = n
    /\ heap'[n].node_b = base

\* the next token is one that is to be attached to base, and both slots of
\* base hold a node
SlotsFull ==
    /\ \/ AtLeaf(Current) /\ heap[base].value # None
       \/ AtGroup(Current) /\ ArgumentTarget(heap, base) = 0
    /\ heap[base].node_a # 0 /\ heap[base].node_b # 0

\* token n comes right after an operator token (tokens are numbered in the
\* order of the text)
AfterOperator(n) == n > 1 /\ heap[n - 1].type = "OPERATOR"

\* the binary operators of an arithmetic token sequence have one weight
SameWeight(t) ==
    /\ IsArithmetic(t)
    /\ \A i, j \in 1..Len(t.nodes) :
          (i % 2 = 0 /\ j % 2 = 0) => t.heap[i].weight = t.heap[j].weight

\* tokens 1..k are grouped left to right on the heap h: operator 2j has the
\* tree of the tokens before it on its left and operand 2j + 1 on its right
LeftToRight(h, k) ==
    /\ \A j \in 1..((k - 1) \div 2) :
          /\ h[2 * j].node_a = (IF j = 1 THEN 1 ELSE 2 * j - 2)
          /\ h[2 * j].node_b = 2 * j + 1
    /\ \A j \in 1..((k + 1) \div 2) :
          h[2 * j - 1].node_a = 0 /\ h[2 * j - 1].node_b = 0

-----------------------------------------------------------------------------
(* Properties, part 2: the claims *)

\* C1: for every token sequence number (op number)* with op among
\* + - * / % // ^, the tree createExpressionTree(Node(), tokens) returns
\* evaluates to the value standard precedence gives (^ above * / % //, those
\* above + -, equal levels from left to right).
C1_StandardPrecedence ==
    (pc = "done" /\ IsArithmetic(Tokens))
        => \A i \in DOMAIN results : results[i].value = StandardValue(Tokens)

\* C2: for every expression (E1) op E2 whose first token is the group,
\* tokenizing, building and evaluating raises no error and yields
\* value(E1) op value(E2), whenever that value exists.
C2_GroupFirst ==
    (IsGroupFirst(Tokens) /\ ~ContainsToday(expression))
        => /\ pc # "error"
           /\ \A i \in DOMAIN results :
                 ~Raised(GroupFirstValue(Tokens, results[i].kwargs))
                     => results[i].value = GroupFirstValue(Tokens, results[i].kwargs)

\* C3: for every token sequence L cmp R, the node createExpressionTree
\* returns is the comparator node, its left child is the tree built from L
\* and its right child the tree built from all the tokens after the
\* comparator.
C3_ComparatorIsRoot ==
    (pc = "done" /\ IsComparison(Tokens))
        => /\ root = Min(Comparators(Tokens))
           /\ Shape(heap, heap[root].node_a)
                = TreeOf(Tokens, SubSeq(Tokens.nodes, 1, root - 1))
           /\ Shape(heap, heap[root].node_b)
                = TreeOf(Tokens, SubSeq(Tokens.nodes, root + 1, Len(Tokens.nodes)))

\* C4: for every argument text with balanced parentheses, split cuts the
\* text at a comma if and only if the comma is inside no parentheses, so the
\* groups it returns are the top-level arguments, one group each.
C4_TopLevelCommas ==
    pc = "returned"
        => [i \in 1..Len(nodes) |-> heap[nodes[i]].value] = TopLevelArguments(expression)

\* C5: an expression that is "+" followed by an operand x (a number, or a
\* number with a minus sign, as in +-5) tokenizes, builds and evaluates to
\* the absolute value of x.
C5_UnaryPlus ==
    IsSignedNumber(PlusOperand)
        => /\ pc # "error"
           /\ \A i \in DOMAIN results :
                 results[i].value = AbsVal(SignedValue(PlusOperand))

\* C6: an evaluation of the built tree leaves every node as it was (value,
\* child slots, argument list), and, when the expression calls no today(),
\* evaluations in a row under the same environment yield the same result.
C6_EvaluationIsPure ==
    [][ (pc = "done" /\ results' # results)
          => /\ \A n \in DOMAIN heap : heap'[n] = heap[n]
             /\ ~ContainsToday(expression)
                  => \A i, j \in DOMAIN results' :
                        results'[i].value = results'[j].value ]_vars

\* C6, the case: a tree with a group under its root operator has been
\* evaluated twice, to a number.
C6_EvaluatedTwice ==
    /\ Len(results) >= 2
    /\ ~ContainsToday(expression)
    /\ results[2].value.k = "num"
    /\ heap[root].type = "OPERATOR"
    /\ heap[root].node_b # 0
    /\ heap[heap[root].node_b].type = "TOKEN_GROUP"

\* C7 as amended: while the tree is built, a left slot that holds a node is
\* never written again, and a right slot that holds a node is written again
\* only by the rotation of line 409, when the call on the heavier operator
\* returns; a leaf or group token that is to be attached to a base whose
\* slots are both filled ends the build in a syntax error and leaves the
\* tree as it was.
C7_RewrittenOnlyByRotation ==
    [][ pc = "build"
          => /\ \A n \in DOMAIN heap :
                   ~RewritesA(n) /\ (RewritesB(n) => RotationReturns(n))
             /\ SlotsFull => (pc' = "error" /\ heap' = heap) ]_vars

\* C7, the case: a rotation has replaced the right child of an operator by
\* the tree of a heavier operator, which holds the old right child.
C7_Rotated ==
    \E n \in DOMAIN heap :
        /\ heap[n].type = "OPERATOR" /\ heap[n].node_b # 0
        /\ heap[heap[n].node_b].type = "OPERATOR"
        /\ heap[heap[n].node_b].weight > heap[n].weight
        /\ heap[heap[n].node_b].node_a # 0

\* C7 as stated: while the tree is built no step writes a child slot that
\* holds a node, and an attempt to fill a filled slot ends in a syntax
\* error.
C7_AssignedAtMostOnce ==
    [][ pc = "build"
          => /\ \A n \in DOMAIN heap : ~RewritesA(n) /\ ~RewritesB(n)
             /\ SlotsFull => (pc' = "error" /\ heap' = heap) ]_vars

\* C8: the group tokens extractNodes returns hold, in order, the texts the
\* group alternative matched, each without exactly its one enclosing pair of
\* parentheses; a match gives no token only when that inner text is empty.
C8_OnePairRemoved ==
    JustTokenized => StoredGroups = ExpectedGroups(expression)

\* C9: for the tokens of a parenthesis-free expression whose binary
\* operators all have the same weight, the root is the last operator, its
\* right child the last operand and its left child the tree of the tokens
\* before it, grouped the same way: a op1 b op2 c is op2(op1(a, b), c).
C9_LeftToRight ==
    (pc = "done" /\ SameWeight(Tokens))
        => /\ root = Max({1, Len(Tokens.nodes) - 1})
           /\ LeftToRight(heap, Len(Tokens.nodes))

\* C9, the case: three operands or more and two different operators of one
\* weight have been built.
C9_Chain ==
    /\ pc = "done"
    /\ SameWeight(Tokens)
    /\ Len(Tokens.nodes) >= 5
    /\ heap[2].value # heap[4].value

\* C10: while the tree is built, the argument list a function node has been
\* given is not changed by a later token, and a group that comes right after
\* an operator becomes an operand (a child) of that operator.
C10_ArgumentsKept ==
    [][ pc = "build"
          => /\ \A n \in DOMAIN heap :
                   (heap[n].type = "FUNCTION" /\ heap[n].arguments # <<>>)
                       => heap'[n].arguments = heap[n].arguments
             /\ (AtGroup(Current) /\ AfterOperator(Head(nodes)))
                  => Head(nodes) \in {heap'[Head(nodes) - 1].node_a,
                                      heap'[Head(nodes) - 1].node_b} ]_vars

=============================================================================
